---------------------------- MODULE Spec2Model ----------------------------
(***************************************************************************)
(* LlamaTokenizerFast (tokenization_llama_fast.py): the post-processor     *)
(* template the tokenizer installs in its engine, and the assembly of a    *)
(* chat conversation into one flat sequence of token ids.                  *)
(*                                                                         *)
(* Strings are TLA+ strings, built with \o exactly where the code builds   *)
(* them with + and f-strings; token ids are integers.                      *)
(***************************************************************************)
EXTENDS Integers, Sequences, FiniteSets, TLC

VARIABLES
    bos_token,          \* self.bos_token
    eos_token,          \* self.eos_token
    add_bos_token,      \* self._add_bos_token
    add_eos_token,      \* self._add_eos_token
    post_processor,     \* self._tokenizer.post_processor
    called,             \* the operation that ran last
    value,              \* the argument of that operation (None when it takes none)
    raised,             \* the exception it ended with ("none" when it returned)
    updates_in_row,     \* direct update_post_processor calls since any other operation
    messages,           \* conversation.messages
    original,           \* conversation.messages as the caller built the conversation
    ret,                \* what the last _build_conversation_input_ids returned
    calls,              \* _build_conversation_input_ids calls on the conversation so far
    add_special_tokens, \* self.add_special_tokens, passed to encode
    prompt_tokens       \* the delimiter token ids default_prompt_config leaves open

tok_vars  == <<bos_token, eos_token, add_bos_token, add_eos_token, post_processor,
               updates_in_row>>
conv_vars == <<messages, original, ret, calls, add_special_tokens, prompt_tokens>>
vars      == <<bos_token, eos_token, add_bos_token, add_eos_token, post_processor,
               called, value, raised, updates_in_row,
               messages, original, ret, calls, add_special_tokens, prompt_tokens>>

None == "None"

-----------------------------------------------------------------------------
(* Bounds *)

\* longest conversation the caller builds
MaxMsgs == 3
\* _build_conversation_input_ids calls followed on one conversation
MaxCalls == 2
\* consecutive direct update_post_processor calls followed
MaxRepeat == 2

-----------------------------------------------------------------------------
(* The engine's vocabulary *)

\* "<s>" is id 1 (the class docstring's encode example starts with 1), "</s>" 2,
\* "<unk>" 0; "<0x00>" is a further vocabulary entry; "<zz>" is in no vocabulary.
vocab == [t \in {"<unk>", "<s>", "</s>", "<0x00>"} |->
             CASE t = "<unk>" -> 0 [] t = "<s>" -> 1 [] t = "</s>" -> 2 [] OTHER -> 3]

\* what a caller may assign to bos_token / eos_token
TokenStrings == {"<s>", "</s>", "<0x00>", "<zz>"}

\* resolve_token_id(t) answers an id exactly for the strings of the vocabulary and
\* fails with LookupError for every other string
CanResolve(t) == t \in DOMAIN vocab

resolve_token_id(t) == vocab[t]

-----------------------------------------------------------------------------
(* update_post_processor *)

\* str * bool
StrTimes(s, b) == IF b THEN s ELSE ""

\* line 148
single_pattern(bos, eos, add_bos, add_eos) ==
    StrTimes(bos \o ":0 ", add_bos) \o "$A:0" \o StrTimes(" " \o eos \o ":0", add_eos)

\* line 149
pair_pattern(single, bos, eos, add_bos, add_eos) ==
    single \o StrTimes(" " \o bos \o ":1", add_bos) \o " $B:1"
           \o StrTimes(" " \o eos \o ":1", add_eos)

\* the list with the eos entry put first
special_tokens_eos_first(bos, bos_token_id, eos, eos_token_id, add_bos, add_eos) ==
    (IF add_eos THEN << <<eos, eos_token_id>> >> ELSE << >>)
        \o (IF add_bos THEN << <<bos, bos_token_id>> >> ELSE << >>)

\* lines 151-155
special_tokens_list(bos, bos_token_id, eos, eos_token_id, add_bos, add_eos) ==
    (IF add_bos THEN << <<bos, bos_token_id>> >> ELSE << >>)
        \o (IF add_eos THEN << <<eos, eos_token_id>> >> ELSE << >>)

\* processors.TemplateProcessing(single=, pair=, special_tokens=)
TemplateProcessing(single, pair, special_tokens) ==
    [single |-> single, pair |-> pair, special_tokens |-> special_tokens]

\* lines 148-158 once both ids are in hand
build_template(bos, eos, add_bos, add_eos) ==
    LET bos_token_id == resolve_token_id(bos)
        eos_token_id == resolve_token_id(eos)
        single == single_pattern(bos, eos, add_bos, add_eos)
        pair == pair_pattern(single, bos, eos, add_bos, add_eos)
    IN  TemplateProcessing(single, pair,
            special_tokens_list(bos, bos_token_id, eos, eos_token_id, add_bos, add_eos))

\* a variant that drops the segment of a token it cannot resolve and goes on
update_post_processor_lenient(bos, eos, add_bos, add_eos) ==
    LET ab == add_bos /\ CanResolve(bos)
        ae == add_eos /\ CanResolve(eos)
        single == single_pattern(bos, eos, ab, ae)
    IN  /\ raised' = "none"
        /\ post_processor' = TemplateProcessing(
               single, pair_pattern(single, bos, eos, ab, ae),
               (IF ab THEN << <<bos, resolve_token_id(bos)>> >> ELSE << >>)
                   \o (IF ae THEN << <<eos, resolve_token_id(eos)>> >> ELSE << >>))

\* a variant that patches the installed special-token list instead of rebuilding it
update_post_processor_patch(bos, eos, add_bos, add_eos) ==
    IF ~CanResolve(bos) \/ ~CanResolve(eos)
    THEN raised' = "LookupError" /\ post_processor' = post_processor
    ELSE /\ raised' = "none"
         /\ post_processor' =
                [build_template(bos, eos, add_bos, add_eos) EXCEPT
                    !.special_tokens = post_processor.special_tokens \o @]

\* update_post_processor on the instance's bos/eos strings and flags: both ids are
\* read first (lines 143, 146), the lookup of a string outside the vocabulary ends
\* the call there, and nothing is installed
update_post_processor(bos, eos, add_bos, add_eos) ==
    IF ~CanResolve(bos) \/ ~CanResolve(eos)
    THEN raised' = "LookupError" /\ post_processor' = post_processor
    ELSE /\ raised' = "none"
         /\ post_processor' = build_template(bos, eos, add_bos, add_eos)

-----------------------------------------------------------------------------
(* The conversation of a tokenizer whose template is being configured: none *)

NoConversation ==
    /\ messages = << >>
    /\ original = << >>
    /\ ret = << >>
    /\ calls = 0
    /\ add_special_tokens = FALSE
    /\ prompt_tokens = None

-----------------------------------------------------------------------------
(* Construction, the setters, the direct call *)

\* __init__ with bos_token, eos_token, add_bos_token, add_eos_token given by the
\* caller: the state after a construction that succeeded
Constructed(bos, eos, add_bos, add_eos) ==
    /\ CanResolve(bos) /\ CanResolve(eos)
    /\ bos_token = bos
    /\ eos_token = eos
    /\ add_bos_token = add_bos
    /\ add_eos_token = add_eos
    /\ post_processor = build_template(bos, eos, add_bos, add_eos)
    /\ called = "__init__"
    /\ value = None
    /\ raised = "none"
    /\ updates_in_row = 0

\* a setter that stores the flag and leaves the template alone
add_bos_token_setter_store_only(v) ==
    /\ add_bos_token' = v
    /\ called' = "add_bos_token"
    /\ value' = v
    /\ raised' = "none"
    /\ updates_in_row' = 0
    /\ UNCHANGED <<bos_token, eos_token, add_eos_token, post_processor>>
    /\ UNCHANGED conv_vars

\* add_bos_token.setter
add_bos_token_setter(v) ==
    /\ add_bos_token' = v
    /\ update_post_processor(bos_token, eos_token, v, add_eos_token)
    /\ called' = "add_bos_token"
    /\ value' = v
    /\ updates_in_row' = 0
    /\ UNCHANGED <<bos_token, eos_token, add_eos_token>>
    /\ UNCHANGED conv_vars

\* a setter that re-runs the configurator only when the flag is switched on
add_eos_token_setter_only_on(v) ==
    /\ add_eos_token' = v
    /\ IF v THEN update_post_processor(bos_token, eos_token, add_bos_token, v)
            ELSE raised' = "none" /\ post_processor' = post_processor
    /\ called' = "add_eos_token"
    /\ value' = v
    /\ updates_in_row' = 0
    /\ UNCHANGED <<bos_token, eos_token, add_bos_token>>
    /\ UNCHANGED conv_vars

\* add_eos_token.setter
add_eos_token_setter(v) ==
    /\ add_eos_token' = v
    /\ update_post_processor(bos_token, eos_token, add_bos_token, v)
    /\ called' = "add_eos_token"
    /\ value' = v
    /\ updates_in_row' = 0
    /\ UNCHANGED <<bos_token, eos_token, add_bos_token>>
    /\ UNCHANGED conv_vars

\* tokenizer.update_post_processor() called by the user
call_update_post_processor ==
    /\ updates_in_row < MaxRepeat
    /\ update_post_processor(bos_token, eos_token, add_bos_token, add_eos_token)
    /\ called' = "update_post_processor"
    /\ value' = None
    /\ updates_in_row' = updates_in_row + 1
    /\ UNCHANGED <<bos_token, eos_token, add_bos_token, add_eos_token>>
    /\ UNCHANGED conv_vars

\* tokenizer.bos_token = t: the class docstring (lines 63-66) tells the user to call
\* update_post_processor() afterwards, the assignment itself installs nothing
set_bos_token(t) ==
    /\ bos_token' = t
    /\ called' = "bos_token"
    /\ value' = t
    /\ raised' = "none"
    /\ updates_in_row' = 0
    /\ UNCHANGED <<eos_token, add_bos_token, add_eos_token, post_processor>>
    /\ UNCHANGED conv_vars

\* tokenizer.eos_token = t
set_eos_token(t) ==
    /\ eos_token' = t
    /\ called' = "eos_token"
    /\ value' = t
    /\ raised' = "none"
    /\ updates_in_row' = 0
    /\ UNCHANGED <<bos_token, add_bos_token, add_eos_token, post_processor>>
    /\ UNCHANGED conv_vars

SetAddBosToken == \E v \in BOOLEAN : add_bos_token_setter(v)
SetAddEosToken == \E v \in BOOLEAN : add_eos_token_setter(v)
SetBosToken == \E t \in TokenStrings : set_bos_token(t)
SetEosToken == \E t \in TokenStrings : set_eos_token(t)

\* a tokenizer as constructed, with no conversation
InitTokenizer ==
    /\ \E bos \in TokenStrings, eos \in TokenStrings, add_bos \in BOOLEAN,
          add_eos \in BOOLEAN : Constructed(bos, eos, add_bos, add_eos)
    /\ NoConversation

\* the flags and the direct call, bos_token and eos_token left as constructed
NextFlags ==
    \/ SetAddBosToken
    \/ SetAddEosToken
    \/ call_update_post_processor

SpecFlags == InitTokenizer /\ [][NextFlags]_vars

\* every operation on the tokenizer's configuration
NextTokenizer ==
    \/ SetAddBosToken
    \/ SetAddEosToken
    \/ call_update_post_processor
    \/ SetBosToken
    \/ SetEosToken

SpecTokenizer == InitTokenizer /\ [][NextTokenizer]_vars

-----------------------------------------------------------------------------
(* The prompt format *)

\* lines 40-45
DEFAULT_SYSTEM_PROMPT ==
    "You are a helpful, respectful and honest assistant. Always answer as helpfully as possible, while being safe. Your answers should not include any harmful, unethical, racist, sexist, toxic, dangerous, or illegal content. Please ensure that your responses are socially unbiased and positive in nature.\n\nIf a question does not make any sense, or is not factually coherent, explain why instead of answering something not correct. If you don't know the answer to a question, please don't share false information."

\* lines 128-133, prompt=None
system_message_start == "<<SYS>>\n"
system_message_end == "\n<</SYS>>\n\n"
user_message_start == "[INST] "
user_message_end == " [/INST]"
assistant_message_start == " "
assistant_message_end == " "

\* line 271
user_message_start_token == resolve_token_id(bos_token)
\* line 272
assistant_message_end_token == resolve_token_id(eos_token)

\* The four delimiter token ids default_prompt_config does not name: a prompt format
\* gives each role a start and an end token id. Two formats: every open id is the
\* vocabulary's "<0x00>"; or every message opens with bos and closes with eos.
PromptTokenFormats ==
    { [system_message_start_token |-> vocab["<0x00>"],
       system_message_end_token |-> vocab["<0x00>"],
       user_message_end_token |-> vocab["<0x00>"],
       assistant_message_start_token |-> vocab["<0x00>"]],
      [system_message_start_token |-> vocab["<s>"],
       system_message_end_token |-> vocab["</s>"],
       user_message_end_token |-> vocab["</s>"],
       assistant_message_start_token |-> vocab["<s>"]] }

-----------------------------------------------------------------------------
(* The engine's encode *)

\* the characters the engine has a token for; any other character is "<unk>"
Alphabet == "abcdefghijklmnopqrstuvwxyzABCDEFGHIJKLMNOPQRSTUVWXYZ .,'<>/[]\n"

CharAt(s, i) == SubSeq(s, i, i)

\* one id per character of the alphabet, after the ids of the vocabulary's named
\* entries
char_ids ==
    [c \in {CharAt(Alphabet, i) : i \in 1..Len(Alphabet)} |->
        vocab["<0x00>"] + (CHOOSE i \in 1..Len(Alphabet) : CharAt(Alphabet, i) = c)]

char_id(c) == IF c \in DOMAIN char_ids THEN char_ids[c] ELSE vocab["<unk>"]

tokenize(text) == [i \in 1..Len(text) |-> char_id(CharAt(text, i))]

\* pattern.split(" ")
RECURSIVE split_on_space(_)
split_on_space(s) ==
    IF \E i \in 1..Len(s) : CharAt(s, i) = " "
    THEN LET i == CHOOSE i \in 1..Len(s) :
                      CharAt(s, i) = " " /\ \A j \in 1..(i - 1) : CharAt(s, j) # " "
         IN  <<SubSeq(s, 1, i - 1)>> \o split_on_space(SubSeq(s, i + 1, Len(s)))
    ELSE <<s>>

\* the ids one piece "name:segment" of a template stands for
piece_ids(piece, ids, special_tokens) ==
    LET name == SubSeq(piece, 1, Len(piece) - 2)
    IN  IF name = "$A" THEN ids
        ELSE <<(CHOOSE e \in {special_tokens[k] : k \in DOMAIN special_tokens} :
                    e[1] = name)[2]>>

RECURSIVE apply_pieces(_, _, _)
apply_pieces(pieces, ids, special_tokens) ==
    IF pieces = << >> THEN << >>
    ELSE piece_ids(Head(pieces), ids, special_tokens)
             \o apply_pieces(Tail(pieces), ids, special_tokens)

\* encode(text, add_special_tokens): the ids of the text, run through the installed
\* single-sequence template when add_special_tokens is set
encode(text, special) ==
    IF special
    THEN apply_pieces(split_on_space(post_processor.single), tokenize(text),
                      post_processor.special_tokens)
    ELSE tokenize(text)

-----------------------------------------------------------------------------
(* _build_conversation_input_ids *)

Whitespace == {" ", "\n", "\t", "\r"}

RECURSIVE lstrip(_)
lstrip(s) ==
    IF Len(s) > 0 /\ CharAt(s, 1) \in Whitespace THEN lstrip(SubSeq(s, 2, Len(s))) ELSE s

RECURSIVE rstrip(_)
rstrip(s) ==
    IF Len(s) > 0 /\ CharAt(s, Len(s)) \in Whitespace
    THEN rstrip(SubSeq(s, 1, Len(s) - 1)) ELSE s

\* text kept as it is
no_strip(s) == s

\* str.strip()
strip(s) == rstrip(lstrip(s))

\* a default system prompt put in front of every conversation
with_default_system_always(msgs) ==
    <<[role |-> "system", message |-> DEFAULT_SYSTEM_PROMPT]>> \o msgs

\* lines 222-224
with_default_system(msgs) ==
    IF Len(msgs) = 0 \/ msgs[1].role # "system"
    THEN <<[role |-> "system", message |-> DEFAULT_SYSTEM_PROMPT]>> \o msgs
    ELSE msgs

\* the roles of all the messages, the system message among them
message_roles_with_system(msgs) == [i \in 1..Len(msgs) |-> msgs[i].role]

\* line 226: the roles of messages[1:]
message_roles(msgs) == [i \in 1..(Len(msgs) - 1) |-> msgs[i + 1].role]

\* seq[start::2], start counted from 0
every_other(seq, start) ==
    [k \in 1..((Len(seq) - start + 1) \div 2) |-> seq[start + 2 * (k - 1) + 1]]

\* lines 228-230
roles_alternate(roles) ==
    /\ \A k \in DOMAIN every_other(roles, 0) : every_other(roles, 0)[k] = "user"
    /\ \A k \in DOMAIN every_other(roles, 1) : every_other(roles, 1)[k] = "assistant"

\* lines 240-254
delimiters(role) ==
    CASE role = "user" ->
            [message_start |-> user_message_start,
             message_end |-> user_message_end,
             message_start_token |-> user_message_start_token,
             message_end_token |-> prompt_tokens.user_message_end_token]
      [] role = "system" ->
            [message_start |-> system_message_start,
             message_end |-> system_message_end,
             message_start_token |-> prompt_tokens.system_message_start_token,
             message_end_token |-> prompt_tokens.system_message_end_token]
      [] role = "assistant" ->
            [message_start |-> assistant_message_start,
             message_end |-> assistant_message_end,
             message_start_token |-> prompt_tokens.assistant_message_start_token,
             message_end_token |-> assistant_message_end_token]

\* every message wrapped in the user's delimiters
tokenized_message_as_user(m) ==
    LET d == delimiters("user")
        message == d.message_start \o strip(m.message) \o d.message_end
    IN  <<d.message_start_token>> \o encode(message, add_special_tokens)
            \o <<d.message_end_token>>

\* lines 240-257: one pass of the loop body
tokenized_message(m) ==
    LET d == delimiters(m.role)
        message == d.message_start \o strip(m.message) \o d.message_end
    IN  <<d.message_start_token>> \o encode(message, add_special_tokens)
            \o <<d.message_end_token>>

\* lines 236-259: the loop, dialog_tokens extended message by message
RECURSIVE dialog_tokens(_, _)
dialog_tokens(msgs, acc) ==
    IF msgs = << >> THEN acc
    ELSE dialog_tokens(Tail(msgs), acc \o tokenized_message(Head(msgs)))

\* tokenizer._build_conversation_input_ids(conversation)
build_conversation_input_ids ==
    /\ calls < MaxCalls
    /\ LET msgs == with_default_system(messages)
       IN  /\ messages' = msgs
           /\ IF ~roles_alternate(message_roles(msgs))
              THEN raised' = "ValueError" /\ ret' = << >>
              ELSE raised' = "none" /\ ret' = dialog_tokens(msgs, << >>)
    /\ called' = "_build_conversation_input_ids"
    /\ value' = None
    /\ calls' = calls + 1
    /\ UNCHANGED <<original, add_special_tokens, prompt_tokens>>
    /\ UNCHANGED tok_vars

\* what a caller may put in a conversation
Roles == {"system", "user", "assistant", "tool"}
Texts == {"", " \n", " Hi\n"}
Messages == [role : Roles, message : Texts]
Conversations == UNION {[1..n -> Messages] : n \in 0..MaxMsgs}

\* a tokenizer constructed with the default bos and eos (lines 106-107), and a
\* conversation the caller built
InitConversation ==
    /\ \E add_bos \in BOOLEAN, add_eos \in BOOLEAN :
           Constructed("<s>", "</s>", add_bos, add_eos)
    /\ messages \in Conversations
    /\ original = messages
    /\ ret = << >>
    /\ calls = 0
    /\ add_special_tokens \in BOOLEAN
    /\ prompt_tokens \in PromptTokenFormats

NextConversation == build_conversation_input_ids

SpecConversation == InitConversation /\ [][NextConversation]_vars

-----------------------------------------------------------------------------
(* The post-processor template: what is stated of it *)

\* the operations that run update_post_processor
UpdateOps == {"add_bos_token", "add_eos_token", "update_post_processor"}

\* the template the specification derives from bos, eos, their ids and the flags,
\* written out for each of the four combinations of the flags
DerivedTemplate(bos, bos_id, eos, eos_id, add_bos, add_eos) ==
    CASE add_bos /\ add_eos ->
            [single |-> bos \o ":0 $A:0 " \o eos \o ":0",
             pair |-> bos \o ":0 $A:0 " \o eos \o ":0 " \o bos \o ":1 $B:1 "
                          \o eos \o ":1",
             special_tokens |-> << <<bos, bos_id>>, <<eos, eos_id>> >>]
      [] add_bos /\ ~add_eos ->
            [single |-> bos \o ":0 $A:0",
             pair |-> bos \o ":0 $A:0 " \o bos \o ":1 $B:1",
             special_tokens |-> << <<bos, bos_id>> >>]
      [] ~add_bos /\ add_eos ->
            [single |-> "$A:0 " \o eos \o ":0",
             pair |-> "$A:0 " \o eos \o ":0 $B:1 " \o eos \o ":1",
             special_tokens |-> << <<eos, eos_id>> >>]
      [] ~add_bos /\ ~add_eos ->
            [single |-> "$A:0", pair |-> "$A:0 $B:1", special_tokens |-> << >>]

\* the installed template is the one derived from the instance as it is now
TemplateIsCurrent ==
    /\ CanResolve(bos_token)
    /\ CanResolve(eos_token)
    /\ post_processor = DerivedTemplate(bos_token, vocab[bos_token], eos_token,
                                        vocab[eos_token], add_bos_token, add_eos_token)

\* C1, as stated: after any sequence of flag assignments and bos_token / eos_token
\* changes, the installed template equals the template derived from the current
\* bos/eos strings, their ids and the two flags.
C1_TemplateNeverStale == TemplateIsCurrent

\* C1, amended: every completed run of update_post_processor (the direct call and the
\* one each flag setter makes) leaves installed the template derived from the current
\* bos/eos strings, ids and flags; a bos_token or eos_token assignment installs
\* nothing, the template stays as it was.
C1_RecomputedByUpdateOnly ==
    [][ /\ (called' \in UpdateOps /\ raised' = "none") => TemplateIsCurrent'
        /\ called' \in {"bos_token", "eos_token"} => post_processor' = post_processor
      ]_vars

\* C1's case: bos_token was changed, and the installed template still names the old
\* bos
C1_Witness ==
    /\ called = "bos_token"
    /\ bos_token = "</s>"
    /\ add_bos_token
    /\ post_processor.special_tokens[1] = <<"<s>", 1>>

\* C2: with bos_token and eos_token as constructed, after construction and after any
\* sequence of add_bos_token / add_eos_token assignments the setter has stored the
\* boolean it was given and the installed template is the one derived from the
\* current values of both flags.
C2_SettersLeaveNoStaleTemplate ==
    /\ TemplateIsCurrent
    /\ raised = "none"
    /\ called = "add_bos_token" => add_bos_token = value
    /\ called = "add_eos_token" => add_eos_token = value

\* C2's case: add_eos_token was switched on after construction without it
C2_Witness ==
    /\ called = "add_eos_token"
    /\ value = TRUE
    /\ add_bos_token
    /\ post_processor.single = bos_token \o ":0 $A:0 " \o eos_token \o ":0"

\* C3: a completed update_post_processor has installed, for each of the four
\* combinations of the flags, the single pattern, pair pattern and special-token list
\* the specification writes out, the bos entry before the eos entry; with "<s>" and
\* "</s>" and both flags set the patterns are the two literal strings, and with both
\* flags clear the single pattern is "$A:0" and the special-token list is empty.
C3_InstalledPatterns ==
    (called \in UpdateOps /\ raised = "none") =>
        /\ post_processor =
               DerivedTemplate(bos_token, resolve_token_id(bos_token), eos_token,
                               resolve_token_id(eos_token), add_bos_token, add_eos_token)
        /\ (add_bos_token /\ add_eos_token /\ bos_token = "<s>" /\ eos_token = "</s>") =>
               /\ post_processor.single = "<s>:0 $A:0 </s>:0"
               /\ post_processor.pair = "<s>:0 $A:0 </s>:0 <s>:1 $B:1 </s>:1"
               /\ post_processor.special_tokens = << <<"<s>", 1>>, <<"</s>", 2>> >>
        /\ (~add_bos_token /\ ~add_eos_token) =>
               /\ post_processor.single = "$A:0"
               /\ post_processor.special_tokens = << >>

\* C3's case: update_post_processor ran with both flags set on "<s>" and "</s>"
C3_Witness ==
    /\ called = "update_post_processor"
    /\ raised = "none"
    /\ add_bos_token /\ add_eos_token
    /\ bos_token = "<s>" /\ eos_token = "</s>"
    /\ post_processor.pair = "<s>:0 $A:0 </s>:0 <s>:1 $B:1 </s>:1"

\* a flag is set whose token has no id
FlaggedTokenUnresolved ==
    \/ add_bos_token /\ ~CanResolve(bos_token)
    \/ add_eos_token /\ ~CanResolve(eos_token)

C9_UpdateIdempotent ==
    [][ (called = "update_post_processor" /\ raised = "none"
            /\ called' = "update_post_processor") =>
            /\ raised' = "none"
            /\ post_processor' = post_processor
            /\ UNCHANGED <<bos_token, eos_token, add_bos_token, add_eos_token>>
            /\ UNCHANGED conv_vars
      ]_vars

\* C9's case: two direct calls in a row, both flags set
C9_Witness ==
    /\ called = "update_post_processor"
    /\ updates_in_row = 2
    /\ raised = "none"
    /\ add_bos_token /\ add_eos_token

-----------------------------------------------------------------------------
(* The conversation: what is stated of it *)

DefaultSystemMessage == [role |-> "system", message |-> DEFAULT_SYSTEM_PROMPT]

\* the caller's messages after the caller's own system message, if it gave one
OriginalAfterSystem ==
    IF original # << >> /\ original[1].role = "system" THEN Tail(original) ELSE original

\* user, assistant, user, assistant, ... starting with user
StrictlyAlternates(msgs) ==
    \A i \in 1..Len(msgs) : msgs[i].role = (IF i % 2 = 1 THEN "user" ELSE "assistant")

\* C4: a conversation is accepted if and only if the roles after the system message
\* (the caller's or the prepended default) strictly alternate user, assistant, ...
\* starting with user; every other conversation ends in the validation error and
\* returns no token ids.
C4_AcceptedIffAlternating ==
    calls > 0 =>
        /\ (raised = "none") <=> StrictlyAlternates(OriginalAfterSystem)
        /\ raised # "none" => (raised = "ValueError" /\ ret = << >>)
        /\ raised = "none" => ret # << >>

\* C4's case: system, then assistant with no user before it, refused
C4_Witness ==
    /\ calls = 1
    /\ Len(original) = 2
    /\ original[1].role = "system"
    /\ original[2].role = "assistant"
    /\ raised = "ValueError"

\* the text with its leading and trailing whitespace removed: from the first to the
\* last character that is not whitespace
Trimmed(text) ==
    IF \A k \in 1..Len(text) : CharAt(text, k) \in Whitespace THEN ""
    ELSE LET first == CHOOSE k \in 1..Len(text) :
                          /\ CharAt(text, k) \notin Whitespace
                          /\ \A j \in 1..(k - 1) : CharAt(text, j) \in Whitespace
             last == CHOOSE k \in 1..Len(text) :
                          /\ CharAt(text, k) \notin Whitespace
                          /\ \A j \in (k + 1)..Len(text) : CharAt(text, j) \in Whitespace
         IN  SubSeq(text, first, last)

\* the block the specification gives a message
Block(m) ==
    LET d == delimiters(m.role)
    IN  <<d.message_start_token>>
            \o encode(d.message_start \o Trimmed(m.message) \o d.message_end,
                      add_special_tokens)
            \o <<d.message_end_token>>

\* the block of a message with no text: the delimiters alone
DelimiterBlock(role) ==
    LET d == delimiters(role)
    IN  <<d.message_start_token>>
            \o encode(d.message_start \o d.message_end, add_special_tokens)
            \o <<d.message_end_token>>

RECURSIVE Concatenation(_)
Concatenation(blocks) ==
    IF blocks = << >> THEN << >> ELSE Head(blocks) \o Concatenation(Tail(blocks))

Blank(text) == \A k \in 1..Len(text) : CharAt(text, k) \in Whitespace

\* C5, as stated: an accepted multi-turn conversation (two user turns or more) gives
\* <bos>[INST] <<SYS>>\n{system}... <eos>: the first id is the bos id, the ids after it
\* are those of the first user turn's '[INST] ' opener followed by the system block's
\* '<<SYS>>\n', and a closing assistant reply is followed by the eos id.
C5_SystemInsideFirstUserTurn ==
    (calls > 0 /\ raised = "none" /\ Len(messages) >= 4) =>
        /\ ret[1] = resolve_token_id(bos_token)
        /\ SubSeq(ret, 2, 1 + Len(user_message_start \o system_message_start))
               = tokenize(user_message_start \o system_message_start)
        /\ messages[Len(messages)].role = "assistant" =>
               ret[Len(ret)] = resolve_token_id(eos_token)

C8_BlankMessageGivesDelimitersOnly ==
    (calls > 0 /\ raised = "none") =>
        ret = Concatenation([i \in 1..Len(messages) |->
                  IF Blank(messages[i].message)
                  THEN DelimiterBlock(messages[i].role)
                  ELSE Block(messages[i])])

\* C8's case: a single system message of whitespace only
C8_Witness ==
    /\ calls > 0
    /\ raised = "none"
    /\ original = <<[role |-> "system", message |-> " \n"]>>
    /\ ~add_special_tokens
    /\ Len(ret) = 2 + Len(system_message_start \o system_message_end)

\* C10: before any call the conversation holds the caller's messages; after any
\* number of calls, accepted or refused, it holds the default system message followed
\* by the caller's messages when the caller's list was empty or did not start with a
\* system message, and the caller's messages alone otherwise: one default system
\* message at most, the caller's messages in their order.
C10_DefaultSystemPrependedOnce ==
    /\ calls = 0 => messages = original
    /\ calls > 0 =>
           messages = (IF original = << >> \/ original[1].role # "system"
                       THEN <<DefaultSystemMessage>> \o original
                       ELSE original)

\* C10's case: two calls on a conversation that starts with an assistant message,
\* both refused
C10_Witness ==
    /\ calls = 2
    /\ raised = "ValueError"
    /\ original # << >>
    /\ original[1].role = "assistant"
    /\ Len(messages) = Len(original) + 1

=============================================================================
